---- MODULE Spec2Model ----
(***************************************************************************)
(* Temporal edge convolution layers of temporal_edgecnn.py: the candidate  *)
(* pair builder make_proper_data, the k-NN path of                         *)
(* GeneralizedTemporalSelfAttentionDynamicEdgeConv, the adjacent-frame     *)
(* variants, and the mask / offset table / forward pass of                 *)
(* TemporalAutomatedGraphDynamicEdgeConv.                                  *)
(*                                                                         *)
(* Tensors are flattened to sequences; a tensor position is 0-based as in  *)
(* the source (At reads position i).  Point features are one integer per   *)
(* point.                                                                  *)
(***************************************************************************)
EXTENDS Integers, Sequences, FiniteSets, TLC

\* ---------------------------------------------------------------- bounds
MaxBatch == 2
MaxFrames == 3
MaxPoints == 2
MaxK == 2
MaxT == 2
MaxChannels == 3

VARIABLES
    knn_imported,           \* FALSE when the module-level name knn is None
    cls,                    \* class of the constructed layer, or "module"
    k,                      \* self.k
    T,                      \* self.T (generalized layer)
    t,                      \* self.t (automated-graph layer)
    batch_size,             \* self.batch_size
    num_points,             \* num_points given at construction
    num_frames,             \* num_frames given at construction
    mask,                   \* self.mask
    point_index_corrector,  \* self.point_index_corrector
    call,                   \* arguments of the call in progress
    status,                 \* "idle", or how the last call ended: "ok", "error"
    mpd,                    \* last result of make_proper_data
    b,                      \* last (b[0], b[1]) pair of an adjacent-frame layer
    knn_edge_index,         \* last output of knn, before any translation
    local_edge_index,       \* last output of the graph creator, per sample
    edge_index,             \* last edge list handed to propagate
    propagated,             \* what propagate computed from it
    net_out,                \* what the last Net.forward computed
    reset_log               \* modules whose reset_parameters the last call invoked

vars == <<knn_imported, cls, k, T, t, batch_size, num_points, num_frames, mask,
          point_index_corrector, call, status, mpd, b, knn_edge_index,
          local_edge_index, edge_index, propagated, net_out, reset_log>>

\* what the last call left behind
results == <<mpd, b, knn_edge_index, local_edge_index, edge_index, propagated,
             net_out, reset_log>>

layer == <<cls, k, T, t, batch_size, num_points, num_frames, mask,
           point_index_corrector>>

\* ------------------------------------------------------- tensor helpers
At(s, i) == s[i + 1]

unique(s) == {s[i] : i \in DOMAIN s}

Abs(n) == IF n < 0 THEN -n ELSE n

Min2(x, y) == IF x < y THEN x ELSE y

Max2(x, y) == IF x < y THEN y ELSE x

\* the elements of a finite set of integers in increasing order
RECURSIVE Ascending(_)
Ascending(S) ==
    IF S = {} THEN <<>>
    ELSE LET m == CHOOSE x \in S : \A y \in S : x <= y
         IN  <<m>> \o Ascending(S \ {m})

\* ------------------------------------------------------------- batches
\* A batch as the dataset collaborator yields it: B samples, each F frames
\* of P points, sample-major, then frame-major, then point-major; frames are
\* numbered from 1 (process_set: frame_index + 1).
sample_ids(B, F, P) == [n \in 1..(B * F * P) |-> (n - 1) \div (F * P)]

sequence_numbers(B, F, P) == [n \in 1..(B * F * P) |-> (((n - 1) \div P) % F) + 1]

\* one integer feature per point, drawn from a small family of patterns
FeaturePatterns == {<<0, 0>>, <<1, 0>>, <<2, 1>>, <<1, 2>>}

features(N, pat) == [n \in 1..N |-> ((pat[1] * (n - 1) + pat[2]) % 3) - 1]

TieOrders == {"low", "high"}

\* a batch whose last drop points were lost before the call
truncated(s, drop) == SubSeq(s, 1, Len(s) - drop)

\* -------------------------------------------------------- batch indexer
\* batch * frame_number + sequence_number - 1
\* variant: the sample id not scaled by the frame count
group_id_short(sample, frame_number, seq) == sample + seq - 1

group_id(sample, frame_number, seq) == sample * frame_number + seq - 1

\* ------------------------------------------------------ make_proper_data
\* torch.tril(torch.ones((n, n)), diagonal=d)[i][j]
tril(i, j, diagonal) == IF j - i <= diagonal THEN 1 ELSE 0

\* variant: without mask[0][0] = 1
frame_mask_no_first(frame_number, self_loop, window, i, j) ==
    (IF self_loop THEN tril(i, j, 0) ELSE tril(i, j, -1))
        - tril(i, j, -window - 1)

\* variant: the second triangle taken at diagonal -T
frame_mask_short(frame_number, self_loop, window, i, j) ==
    (IF self_loop THEN tril(i, j, 0)
     ELSE IF i = 0 /\ j = 0 THEN 1 ELSE tril(i, j, -1))
        - tril(i, j, -window)

\* mask[i][j] of lines 320-326, i and j 0-based frame indices
frame_mask(frame_number, self_loop, window, i, j) ==
    (IF self_loop THEN tril(i, j, 0)
     ELSE IF i = 0 /\ j = 0 THEN 1 ELSE tril(i, j, -1))
        - tril(i, j, -window - 1)

\* the positions m of mask.reshape(-1) with mask == 1, in order
selected(frame_number, self_loop, window) ==
    Ascending({m \in 0..(frame_number * frame_number - 1) :
                 frame_mask(frame_number, self_loop, window,
                            m \div frame_number, m % frame_number) = 1})

\* variant: positions counted from 1
arange_from_one(n) == [i \in 1..n |-> i]

\* torch.arange(0, n)
arange(n) == [i \in 1..n |-> i - 1]

\* variant: the distinct rows counted instead of the rows
len_distinct(data) == Cardinality(unique(data))

\* len(data): the number of rows
len(data) == Len(data)

make_proper_data(data, sequence_number, batch, self_loop, window) ==
    LET N == len(data)
        bsz == Cardinality(unique(batch))
        frame_number == Cardinality(unique(sequence_number))
        point_number == N \div (bsz * frame_number)
        source_batch == [n \in 1..N |->
                            group_id(batch[n], frame_number, sequence_number[n])]
        \* reshape(batch_size, 1, frame_number, -1, .): the inferred dimension
        divides == N % (bsz * frame_number) = 0 /\ point_number > 0
        sel == selected(frame_number, self_loop, window)
        M == Len(sel)
        \* position q of the masked, flattened (batch_size, M, point_number) view
        smp(q) == q \div (M * point_number)
        row(q) == (q % (M * point_number)) \div point_number
        pnt(q) == q % point_number
        \* reshape(B,1,F,P).repeat(1,F,1,1).reshape(B,F*F,P)[s, m, p] is the
        \* entry [s, m % F, p] of the original
        origin(q) == smp(q) * frame_number * point_number
                        + (At(sel, row(q)) % frame_number) * point_number + pnt(q)
        \* reshape(-1,1).repeat(1,F).reshape(B,-1,P)[s, m, p] is entry
        \* (s*F*F*P + m*P + p) // F of source_batch
        twin(q) == (smp(q) * frame_number * frame_number * point_number
                        + At(sel, row(q)) * point_number + pnt(q)) \div frame_number
    IN  IF ~divides
        THEN [ok |-> FALSE, source |-> data, source_batch |-> source_batch,
              target |-> <<>>, target_batch |-> <<>>, index_mapper |-> <<>>]
        ELSE [ok |-> TRUE,
              source |-> data,
              source_batch |-> source_batch,
              target |-> [q1 \in 1..(bsz * M * point_number) |-> At(data, origin(q1 - 1))],
              target_batch |-> [q1 \in 1..(bsz * M * point_number) |->
                                    At(source_batch, twin(q1 - 1))],
              index_mapper |-> [q1 \in 1..(bsz * M * point_number) |->
                                    At(arange(N), origin(q1 - 1))]]

\* ------------------------------------------- playground.make_proper_data
\* torch.triu(torch.ones((n, n)))[i][j]
triu(i, j) == IF j >= i THEN 1 ELSE 0

\* the positions m of mask.reshape(-1) with mask == 1, in order
playground_selected(frame_number) ==
    Ascending({m \in 0..(frame_number * frame_number - 1) :
                 triu(m \div frame_number, m % frame_number) = 1})

\* make_proper_data of playground.py
playground_make_proper_data(data, sequence_number, batch) ==
    LET N == len(data)
        bsz == Cardinality(unique(batch))
        frame_number == Cardinality(unique(sequence_number))
        point_number == N \div (bsz * frame_number)
        source_batch == [n \in 1..N |->
                            group_id(batch[n], frame_number, sequence_number[n])]
        \* reshape(batch_size, frame_number, -1, .): the inferred dimension
        divides == N % (bsz * frame_number) = 0 /\ point_number > 0
        sel == playground_selected(frame_number)
        M == Len(sel)
        smp(q) == q \div (M * point_number)
        row(q) == (q % (M * point_number)) \div point_number
        pnt(q) == q % point_number
        \* reshape(B,F,P).repeat(F,1,1) has shape (F*B,F,P) and entry [r, f, p]
        \* is entry [r % B, f, p] of the original; reshaped to (B,F*F,P), its
        \* entry [s, m, p] is entry [s*F + m // F, m % F, p] of the repeated
        origin(q) == ((smp(q) * frame_number + At(sel, row(q)) \div frame_number) % bsz)
                          * frame_number * point_number
                        + (At(sel, row(q)) % frame_number) * point_number + pnt(q)
        \* reshape(-1,1).repeat(1,F).reshape(B,-1,P)[s, m, p] is entry
        \* (s*F*F*P + m*P + p) // F of source_batch
        twin(q) == (smp(q) * frame_number * frame_number * point_number
                        + At(sel, row(q)) * point_number + pnt(q)) \div frame_number
    IN  IF ~divides
        THEN [ok |-> FALSE, source |-> data, source_batch |-> source_batch,
              target |-> <<>>, target_batch |-> <<>>, index_mapper |-> <<>>]
        ELSE [ok |-> TRUE,
              source |-> data,
              source_batch |-> source_batch,
              target |-> [q1 \in 1..(bsz * M * point_number) |-> At(data, origin(q1 - 1))],
              target_batch |-> [q1 \in 1..(bsz * M * point_number) |->
                                    At(source_batch, twin(q1 - 1))],
              index_mapper |-> [q1 \in 1..(bsz * M * point_number) |->
                                    At(arange(N), origin(q1 - 1))]]

NoResult == [ok |-> FALSE, source |-> <<>>, source_batch |-> <<>>,
             target |-> <<>>, target_batch |-> <<>>, index_mapper |-> <<>>]

NoEdges == [row0 |-> <<>>, row1 |-> <<>>]

NoPair == <<<<>>, <<>>>>

NoCall == [op |-> "none"]

NoOutput == [message |-> <<>>, refined |-> <<>>, out |-> <<>>]

\* ------------------------------------------------------------------ knn
\* Order of two candidates c, d of one query under key (smaller first); equal
\* keys fall in the order the build happens to produce, lowest or highest
\* position first.
Before(key, tie, c, d) ==
    \/ key[c] < key[d]
    \/ key[c] = key[d] /\ (IF tie = "low" THEN c <= d ELSE c >= d)

\* the first n elements of S in that order
RECURSIVE first_n(_, _, _, _)
first_n(S, key, tie, n) ==
    IF n = 0 \/ S = {} THEN <<>>
    ELSE LET best == CHOOSE c \in S : \A d \in S : Before(key, tie, c, d)
         IN  <<best>> \o first_n(S \ {best}, key, tie, n - 1)

\* torch_cluster.knn(x, y, k, batch_x, batch_y): for each element of y, in
\* order, the (at most) k nearest elements of x that carry its group id;
\* row 0 holds the position in y, row 1 the position in x.
RECURSIVE knn_from(_, _, _, _, _, _, _)
knn_from(i, x, y, kk, batch_x, batch_y, tie) ==
    IF i >= Len(y) THEN NoEdges
    ELSE LET cands == {q \in 0..(Len(x) - 1) : At(batch_x, q) = At(batch_y, i)}
             dist == [q \in cands |-> Abs(At(x, q) - At(y, i))]
             near == first_n(cands, dist, tie, kk)
             rest == knn_from(i + 1, x, y, kk, batch_x, batch_y, tie)
         IN  [row0 |-> [e \in 1..Len(near) |-> i] \o rest.row0,
              row1 |-> near \o rest.row1]

knn(x, y, kk, batch_x, batch_y, tie) == knn_from(0, x, y, kk, batch_x, batch_y, tie)

\* ------------------------------------------------------------- aggregate
\* inputs.reshape([int(E / k), k, C]) of an (E, C) tensor succeeds exactly
\* when the element counts agree
aggregate_reshape_ok(E, kk) == (E \div kk) * kk = E

\* ------------------------- GeneralizedTemporalSelfAttentionDynamicEdgeConv
\* variant: candidate positions left untranslated
translate_identity(index_mapper, row1) == row1

\* edge_index[1] = index_mapper[edge_index[1]]
translate(index_mapper, row1) == [e \in 1..Len(row1) |-> At(index_mapper, row1[e])]

\* ------------------------------------------- adjacent-frame convolutions
\* b_list[1] after torch.where, per point
TemporalDynamicEdgeConv_pair(sample, frames, seq) ==
    IF seq = 1 \/ seq = frames
    THEN group_id(sample, frames, seq)
    ELSE group_id(sample, frames, seq) - 1

\* variant: the last frame falls back too
TemporalAttentionDynamicEdgeConv_pair_last(sample, frames, seq) ==
    IF seq = 1 \/ seq = frames
    THEN group_id(sample, frames, seq)
    ELSE group_id(sample, frames, seq) - 1

TemporalAttentionDynamicEdgeConv_pair(sample, frames, seq) ==
    IF seq = 1
    THEN group_id(sample, frames, seq)
    ELSE group_id(sample, frames, seq) - 1

TemporalSelfAttentionDynamicEdgeConv_pair(sample, frames, seq) ==
    IF seq = 1
    THEN group_id(sample, frames, seq)
    ELSE group_id(sample, frames, seq) - 1

AdjacentClasses == {"TemporalDynamicEdgeConv", "TemporalAttentionDynamicEdgeConv",
                    "TemporalSelfAttentionDynamicEdgeConv"}

pair_of(class, sample, frames, seq) ==
    CASE class = "TemporalDynamicEdgeConv" ->
             TemporalDynamicEdgeConv_pair(sample, frames, seq)
      [] class = "TemporalAttentionDynamicEdgeConv" ->
             TemporalAttentionDynamicEdgeConv_pair(sample, frames, seq)
      [] class = "TemporalSelfAttentionDynamicEdgeConv" ->
             TemporalSelfAttentionDynamicEdgeConv_pair(sample, frames, seq)

\* ------------------------------------ TemporalAutomatedGraphDynamicEdgeConv
\* self.mask[r][c] after the loop over frames of __init__: every assignment
\* writes 1 into the slice [start_row:end_row, start_col:end_col]
mask_entry(points, frames, window, r, c) ==
    LET num_point_per_frame == points \div frames
    IN  IF \E frame \in 0..(frames - 1) :
               LET start_row_index == Max2(0, (frame - window \div 2) * num_point_per_frame)
                   end_row_index == (frame + window \div 2) * num_point_per_frame
                   start_col_index == frame * num_point_per_frame
                   end_col_index == (frame + 1) * num_point_per_frame
               IN  /\ start_row_index <= r /\ r < end_row_index
                   /\ start_col_index <= c /\ c < end_col_index
        THEN 1 ELSE 0

build_mask(points, frames, window) ==
    [r1 \in 1..points |-> [c1 \in 1..points |->
        mask_entry(points, frames, window, r1 - 1, c1 - 1)]]

\* torch.tensor([i * num_points for i in range(batch_size)])[i]
corrector_entry(i, points) == i * points

\* the table after reshape / repeat / permute: shape (batch_size, 2, num_points * k)
build_corrector(bsz, points, kk) ==
    [s1 \in 1..bsz |-> [c1 \in 1..2 |-> [e1 \in 1..(points * kk) |->
        corrector_entry(s1 - 1, points)]]]

\* variant: the last rows of the table instead of the first
corrector_rows_tail(table, self_batch_size, actual) ==
    IF self_batch_size # actual
    THEN SubSeq(table, Len(table) - Min2(actual, Len(table)) + 1, Len(table))
    ELSE table

\* self.point_index_corrector[:batch_size, :, :] for a smaller last batch,
\* the whole table otherwise
corrector_rows(table, self_batch_size, actual) ==
    IF self_batch_size # actual
    THEN SubSeq(table, 1, Min2(actual, Len(table)))
    ELSE table

\* variant: the slice of a smaller batch stored back into the field
corrector_after_forward_sliced(table, self_batch_size, actual) ==
    IF self_batch_size # actual
    THEN SubSeq(table, 1, Min2(actual, Len(table)))
    ELSE table

\* self.point_index_corrector after forward: forward only reads it (the
\* slice of line 593 is a view, the sum a new tensor)
corrector_after_forward(table, self_batch_size, actual) == table

\* an effectively negative-infinite score
NegInf == -1000000

\* the score of target c for source r: the dot product of the two embeddings
score(emb, r, c) == At(emb, r) * At(emb, c)

\* disallowed entries are set to NegInf before top-k selection
masked_score(emb, msk, r, c) ==
    IF At(At(msk, r), c) = 1 THEN score(emb, r, c) ELSE NegInf

\* TemporalSelfAttentionEdgeIndexCreatorLayer on one sample of n points: the
\* top-k scoring targets of every row; shape (2, n * k), source-major
RECURSIVE creator_from(_, _, _, _, _)
creator_from(r, emb, kk, msk, tie) ==
    IF r >= Len(emb) THEN NoEdges
    ELSE LET key == [c \in 0..(Len(emb) - 1) |-> -masked_score(emb, msk, r, c)]
             top == first_n(0..(Len(emb) - 1), key, tie, kk)
             rest == creator_from(r + 1, emb, kk, msk, tie)
         IN  [row0 |-> [e \in 1..kk |-> r] \o rest.row0,
              row1 |-> top \o rest.row1]

\* the mask must have the shape of the score matrix, and top-k needs k columns
graph_creator_ok(n, kk, msk) == Len(msk) = n /\ kk <= n

graph_creator(emb, kk, msk, tie) == creator_from(0, emb, kk, msk, tie)

\* broadcasting of one dimension: sizes agree, or one of them is 1
broadcastable(m, n) == m = n \/ m = 1 \/ n = 1

pick(size, i) == IF size = 1 THEN 1 ELSE i

\* (edge_index + rows).permute(1, 0, 2).reshape(2, -1)
RECURSIVE flatten_from(_, _, _)
flatten_from(s, local, rows) ==
    LET samples == Max2(Len(local), Len(rows))
    IN  IF s > samples THEN NoEdges
        ELSE LET loc == local[pick(Len(local), s)]
                 off == rows[pick(Len(rows), s)]
                 width == Max2(Len(loc.row0), Len(off[1]))
                 rest == flatten_from(s + 1, local, rows)
             IN  [row0 |-> [e \in 1..width |-> loc.row0[pick(Len(loc.row0), e)]
                                                + off[1][pick(Len(off[1]), e)]]
                            \o rest.row0,
                  row1 |-> [e \in 1..width |-> loc.row1[pick(Len(loc.row1), e)]
                                                + off[2][pick(Len(off[2]), e)]]
                            \o rest.row1]

\* ------------------------------------------------------------- propagate
\* variant: the flow argument read the other way round
aggregation_row_default(flow) == IF flow = "target_to_source" THEN 1 ELSE 0

\* MessagePassing: x_i and the aggregation index are row i of edge_index,
\* x_j is the other row; i = 0 for flow='target_to_source'
aggregation_row(flow) == IF flow = "source_to_target" THEN 1 ELSE 0

\* self.nn, a learned transform given at construction: here one linear
\* layer with fixed weights and one output channel
nn(pair) == 2 * pair[1] + 3 * pair[2]

\* self.nn(torch.cat([x_i, x_j - x_i], dim=-1))
message(x_i, x_j) == nn(<<x_i, x_j - x_i>>)

RECURSIVE sum(_)
sum(s) == IF s = <<>> THEN 0 ELSE Head(s) + sum(Tail(s))

\* self.multihead_attn(block, block, block): every output row depends on
\* its own row and on all rows of the block
multihead_attn(block) == [i \in 1..Len(block) |-> block[i] + sum(block)]

\* inputs.reshape([E / k, k, C]), attention inside each block, reshape back
attention_blocks(inputs, kk) ==
    [e \in 1..Len(inputs) |->
        LET first == ((e - 1) \div kk) * kk + 1
        IN  multihead_attn(SubSeq(inputs, first, first + kk - 1))[e - first + 1]]

\* scatter(src, index, dim_size=dim_size, reduce='max'); a row that receives
\* nothing stays 0
scatter(src, index, dim_size) ==
    [p1 \in 1..dim_size |->
        LET got == {src[e] : e \in {d \in 1..Len(src) : index[d] = p1 - 1}}
        IN  IF got = {} THEN 0 ELSE CHOOSE m \in got : \A o \in got : o <= m]

\* propagate gathers x[edge_index[0]] and x[edge_index[1]]: an index outside
\* the rows of x raises
index_select_ok(edges, size) ==
    \A e \in 1..Len(edges.row0) :
        /\ edges.row0[e] \in 0..(size - 1)
        /\ edges.row1[e] \in 0..(size - 1)

\* self.propagate(edge_index, x=x, size=None): message, then aggregate
propagate(edges, x, kk, flow) ==
    LET rows == <<edges.row0, edges.row1>>
        index == rows[aggregation_row(flow) + 1]
        other == rows[2 - aggregation_row(flow)]
        inputs == [e \in 1..Len(index) |-> message(At(x, index[e]), At(x, other[e]))]
        attn_output == attention_blocks(inputs, kk)
    IN  [message |-> inputs, refined |-> attn_output,
         out |-> scatter(attn_output, index, Len(x))]

\* ------------------------------------------------------------------ Net
\* A float is a fraction <<n, d>> in lowest terms with d > 0, or NaN;
\* rounding is not modelled.
NaN == <<0, 0>>

is_nan(v) == v[2] = 0

RECURSIVE gcd(_, _)
gcd(m, n) == IF n = 0 THEN m ELSE gcd(n, m % n)

fraction(n, d) == <<n \div gcd(Abs(n), d), d \div gcd(Abs(n), d)>>

float(n) == <<n, 1>>

sub(v, w) == IF is_nan(v) \/ is_nan(w) THEN NaN
             ELSE fraction(v[1] * w[2] - w[1] * v[2], v[2] * w[2])

add(v, w) == IF is_nan(v) \/ is_nan(w) THEN NaN
             ELSE fraction(v[1] * w[2] + w[1] * v[2], v[2] * w[2])

mul(v, w) == IF is_nan(v) \/ is_nan(w) THEN NaN
             ELSE fraction(v[1] * w[1], v[2] * w[2])

\* the divisions of Net.forward divide by a maximum of values >= 0, so a
\* zero divisor divides zeros only: 0 / 0 is NaN
div(v, w) == IF is_nan(v) \/ is_nan(w) \/ w[1] = 0 THEN NaN
             ELSE IF w[1] < 0 THEN fraction(-(v[1] * w[2]), -(v[2] * w[1]))
             ELSE fraction(v[1] * w[2], v[2] * w[1])

less(v, w) == v[1] * w[2] < w[1] * v[2]

\* torch.min / torch.max of a tensor: NaN if it holds a NaN
torch_min(s) == IF \E i \in DOMAIN s : is_nan(s[i]) THEN NaN
                ELSE s[CHOOSE i \in DOMAIN s : \A j \in DOMAIN s : ~less(s[j], s[i])]

torch_max(s) == IF \E i \in DOMAIN s : is_nan(s[i]) THEN NaN
                ELSE s[CHOOSE i \in DOMAIN s : \A j \in DOMAIN s : ~less(s[i], s[j])]

\* sequence_numbers -= torch.min(sequence_numbers);
\* sequence_numbers /= torch.max(sequence_numbers)
shift(s, lowest) == [n \in DOMAIN s |-> sub(s[n], lowest)]

scale(s, highest) == [n \in DOMAIN s |-> div(s[n], highest)]

normalized(raw) ==
    LET shifted == shift(raw, torch_min(raw))
    IN  scale(shifted, torch_max(shifted))

\* unscaled_sequence_numbers of lines 150-156, from the normalized tensor
unscaled(frames, sequence_number) ==
    LET shifted == shift(sequence_number, torch_min(sequence_number))
        ranged == scale(shifted, sub(torch_max(sequence_number),
                                     torch_min(sequence_number)))
    IN  [n \in DOMAIN sequence_number |->
            add(mul(float(frames - 1), ranged[n]), float(1))]

NoNetOutput == [edge_index |-> <<>>, sequence_numbers |-> <<>>,
                unscaled_sequence_numbers |-> <<>>]

\* the edge_index a convolution stage of Net computes for a batch of actual
\* samples of num_points points each
stage_edges(x, actual, tie) ==
    flatten_from(1,
                 [s \in 1..actual |->
                     graph_creator(SubSeq(x, (s - 1) * num_points + 1, s * num_points),
                                   k, mask, tie)],
                 corrector_rows(point_index_corrector, batch_size, actual))

\* ------------------------------------------------------------- modules
\* A module is its class name, whether the class defines reset_parameters,
\* and its direct children in registration order.
Module(type, defines, children) ==
    [type |-> type, reset_parameters |-> defines, children |-> children]

None == Module("NoneType", FALSE, <<>>)

Lin == Module("Linear", TRUE, <<>>)

ReLU == Module("ReLU", FALSE, <<>>)

BN == Module("BatchNorm1d", TRUE, <<>>)

\* torch.nn.Sequential defines no reset_parameters
Sequential(items) == Module("Sequential", FALSE, items)

\* MLP(channels): one Seq(Lin, ReLU, BN) per consecutive pair of channels
MLP(channels) ==
    Sequential([i \in 1..(Len(channels) - 1) |-> Sequential(<<Lin, ReLU, BN>>)])

\* torch_multi_head_attention.MultiHeadAttention: linear_q, linear_k,
\* linear_v, linear_o
MultiHeadAttention == Module("MultiHeadAttention", FALSE, <<Lin, Lin, Lin, Lin>>)

\* the graph creator as the layer sees it: one module, whose class may or
\* may not define reset_parameters
graph_creator_module(defines) ==
    Module("TemporalSelfAttentionEdgeIndexCreatorLayer", defines, <<>>)

hasattr_reset_parameters(item) == item.reset_parameters

\* reset(nn): the modules whose reset_parameters is invoked, each named by
\* its path of child positions below it
reset(net) ==
    IF net.type = "NoneType" THEN {}
    ELSE IF Len(net.children) > 0
    THEN {<<i>> : i \in {c \in DOMAIN net.children :
                            hasattr_reset_parameters(net.children[c])}}
    ELSE IF hasattr_reset_parameters(net) THEN {<<>>} ELSE {}

\* the attributes reset_parameters of a layer class passes to reset, in order
reset_attributes(class) ==
    CASE class = "TemporalDynamicEdgeConv" -> <<"nn">>
      [] class = "TemporalAttentionDynamicEdgeConv" -> <<"gate_nn", "nn">>
      [] class = "TemporalAutomatedGraphDynamicEdgeConv" ->
             <<"multihead_attn", "nn", "nn_for_seq_num",
               "nn_before_graph_creation", "graph_creator">>
      [] OTHER -> <<"multihead_attn", "nn">>

\* the modules a layer holds under these attributes: nn (and gate_nn) and
\* the pre-transform are the caller's, the others the constructor's
attribute_modules(net, nn_before_graph_creation, creator_defines) ==
    [multihead_attn |-> MultiHeadAttention,
     nn |-> net,
     gate_nn |-> net,
     nn_for_seq_num |-> MLP(<<1, 16>>),
     nn_before_graph_creation |-> nn_before_graph_creation,
     graph_creator |-> graph_creator_module(creator_defines)]

\* the networks a caller builds: a single Linear, a flat Sequential, or an
\* MLP over 2 .. MaxChannels channels
Networks ==
    {Lin, Sequential(<<Lin, ReLU, Lin>>)}
        \cup {MLP([i \in 1..n |-> 16]) : n \in 2..MaxChannels}

\* --------------------------------------------------------------- actions
\* variant: the constructor of one layer without the check
missing_dependency_lazy(class, imported) ==
    ~imported /\ class # "TemporalAutomatedGraphDynamicEdgeConv"

\* if knn is None: raise ImportError(...), in the __init__ of every layer
missing_dependency(class, imported) == ~imported

OtherClasses == {"GeneralizedTemporalSelfAttentionDynamicEdgeConvWithoutMask",
                 "AutomatedGraphDynamicEdgeConv"}

Idle == /\ call = NoCall /\ status = "idle" /\ mpd = NoResult /\ b = NoPair
        /\ knn_edge_index = NoEdges
        /\ local_edge_index = <<>> /\ edge_index = NoEdges
        /\ propagated = NoOutput /\ net_out = NoNetOutput /\ reset_log = {}

Init ==
    /\ knn_imported \in BOOLEAN
    /\ cls = "module"
    /\ k = 0 /\ T = 0 /\ t = 0 /\ batch_size = 0 /\ num_points = 0 /\ num_frames = 0
    /\ mask = <<>> /\ point_index_corrector = <<>>
    /\ Idle

\* a direct call of the module-level function make_proper_data, by a script
\* that constructs no layer (as playground.py calls its own builder)
CallMakeProperData ==
    /\ cls = "module" /\ status = "idle"
    /\ \E B \in 1..MaxBatch, F \in 1..MaxFrames, P \in 1..MaxPoints,
          self_loop \in BOOLEAN, window \in 0..MaxT, pat \in FeaturePatterns,
          drop \in 0..1 :
          LET data == features(B * F * P - drop, pat)
              res == make_proper_data(data,
                                      truncated(sequence_numbers(B, F, P), drop),
                                      truncated(sample_ids(B, F, P), drop),
                                      self_loop, window)
          IN  \* a truncated batch still holds every sample and every frame
              /\ drop = 0 \/ (P > 1 /\ B * F > 1)
              /\ call' = [op |-> "make_proper_data", B |-> B, F |-> F, P |-> P,
                          drop |-> drop,
                          x |-> data, self_loop |-> self_loop, T |-> window]
              /\ mpd' = res
              /\ status' = IF res.ok THEN "ok" ELSE "error"
    /\ UNCHANGED <<knn_imported, layer, b, knn_edge_index, local_edge_index,
                   edge_index, propagated, net_out, reset_log>>

\* the call of the playground script (line 58) on the batch its lines 48-53
\* lay out: batch_size samples of num_frames frames of num_points points;
\* the script imports knn unguarded (line 6) and stops there without it
CallPlaygroundMakeProperData ==
    /\ cls = "module" /\ status = "idle"
    /\ \E B \in 1..MaxBatch, F \in 1..MaxFrames, P \in 1..MaxPoints,
          pat \in FeaturePatterns :
          LET knn_input == features(B * F * P, pat)
          IN  /\ call' = [op |-> "playground", B |-> B, F |-> F, P |-> P,
                          x |-> knn_input]
              /\ mpd' = IF knn_imported
                        THEN playground_make_proper_data(knn_input,
                                                         sequence_numbers(B, F, P),
                                                         sample_ids(B, F, P))
                        ELSE NoResult
              /\ status' = IF mpd'.ok THEN "ok" ELSE "error"
    /\ UNCHANGED <<knn_imported, layer, b, knn_edge_index, local_edge_index,
                   edge_index, propagated, net_out, reset_log>>

\* GeneralizedTemporalSelfAttentionDynamicEdgeConv.__init__
Construct_Generalized ==
    /\ cls = "module" /\ status = "idle"
    /\ IF missing_dependency("GeneralizedTemporalSelfAttentionDynamicEdgeConv",
                             knn_imported)
       THEN /\ status' = "error"
            /\ call' = [op |-> "__init__",
                        class |-> "GeneralizedTemporalSelfAttentionDynamicEdgeConv"]
            /\ UNCHANGED <<cls, k, T>>
       ELSE /\ \E kk \in 1..MaxK, window \in 0..MaxT :
                  /\ cls' = "GeneralizedTemporalSelfAttentionDynamicEdgeConv"
                  /\ k' = kk
                  /\ T' = window
            /\ UNCHANGED <<call, status>>
    /\ UNCHANGED <<knn_imported, t, batch_size, num_points, num_frames, mask,
                   point_index_corrector, results>>

\* knn_input = cat(x, sequence_number), every column min-max normalised
\* (lines 361-363): a constant column divides 0 by 0, and every distance knn
\* computes is then NaN
has_nan(x, sequence_number) ==
    Cardinality(unique(x)) = 1 \/ Cardinality(unique(sequence_number)) = 1

\* what knn returns for NaN distances depends on the build: the candidates in
\* either position order, or no neighbour at all
KnnOutcomes(nan) == IF nan THEN TieOrders \cup {"none"} ELSE TieOrders

\* GeneralizedTemporalSelfAttentionDynamicEdgeConv.forward, with propagate
\* (message, aggregate).  The last column of knn_input is scaled by
\* spatio_temporal_factor (default 0); min-max normalisation of the one
\* feature column is a positive scaling, so the order of the distances is
\* that of x.
Forward_Generalized ==
    /\ cls = "GeneralizedTemporalSelfAttentionDynamicEdgeConv" /\ status = "idle"
    /\ \E B \in 1..MaxBatch, F \in 1..MaxFrames, P \in 1..MaxPoints,
          pat \in FeaturePatterns :
          LET x == features(B * F * P, pat)
              nan == has_nan(x, sequence_numbers(B, F, P))
          IN  \E tie \in KnnOutcomes(nan) :
                LET res == make_proper_data(x, sequence_numbers(B, F, P),
                                            sample_ids(B, F, P), FALSE, T)
                IN  /\ call' = [op |-> "forward", B |-> B, F |-> F, P |-> P, x |-> x,
                                tie |-> tie, nan |-> nan]
                    /\ mpd' = res
                    /\ knn_edge_index' =
                          IF ~mpd'.ok \/ tie = "none" THEN NoEdges
                          ELSE knn(mpd'.target, mpd'.source, k, mpd'.target_batch,
                                   mpd'.source_batch, tie)
                    /\ edge_index' =
                          IF ~mpd'.ok THEN NoEdges
                          ELSE [row0 |-> knn_edge_index'.row0,
                                row1 |-> translate(mpd'.index_mapper,
                                                   knn_edge_index'.row1)]
                    /\ status' = IF mpd'.ok
                                    /\ index_select_ok(edge_index', Len(x))
                                    /\ aggregate_reshape_ok(Len(edge_index'.row0), k)
                                 THEN "ok" ELSE "error"
                    /\ propagated' =
                          IF status' = "ok"
                          THEN propagate(edge_index', x, k, "target_to_source")
                          ELSE NoOutput
    /\ UNCHANGED <<knn_imported, layer, b, local_edge_index, net_out, reset_log>>

\* __init__ of the three layers that pair adjacent frames
Construct_Adjacent ==
    /\ cls = "module" /\ status = "idle"
    /\ \E class \in AdjacentClasses :
          IF missing_dependency(class, knn_imported)
          THEN /\ status' = "error"
               /\ call' = [op |-> "__init__", class |-> class]
               /\ UNCHANGED <<cls, k>>
          ELSE /\ \E kk \in 1..MaxK :
                     /\ cls' = class
                     /\ k' = kk
               /\ UNCHANGED <<call, status>>
    /\ UNCHANGED <<knn_imported, T, t, batch_size, num_points, num_frames, mask,
                   point_index_corrector, results>>

\* __init__ of GeneralizedTemporalSelfAttentionDynamicEdgeConvWithoutMask and
\* of AutomatedGraphDynamicEdgeConv
Construct_Other ==
    /\ cls = "module" /\ status = "idle"
    /\ \E class \in OtherClasses :
          IF missing_dependency(class, knn_imported)
          THEN /\ status' = "error"
               /\ call' = [op |-> "__init__", class |-> class]
               /\ UNCHANGED <<cls, k, T>>
          ELSE /\ \E kk \in 1..MaxK, window \in 0..MaxT :
                     /\ cls' = class
                     /\ k' = kk
                     /\ T' = IF class = "AutomatedGraphDynamicEdgeConv" THEN T
                             ELSE window
               /\ UNCHANGED <<call, status>>
    /\ UNCHANGED <<knn_imported, t, batch_size, num_points, num_frames, mask,
                   point_index_corrector, results>>

\* forward of the three layers that pair adjacent frames; only
\* TemporalSelfAttentionDynamicEdgeConv.aggregate reshapes into blocks of k
Forward_Adjacent ==
    /\ cls \in AdjacentClasses /\ status = "idle"
    /\ \E B \in 1..MaxBatch, F \in 1..MaxFrames, P \in 1..MaxPoints,
          pat \in FeaturePatterns, tie \in TieOrders :
          LET N == B * F * P
              x == features(N, pat)
              sequence_number == sequence_numbers(B, F, P)
              batch == sample_ids(B, F, P)
              frames == Cardinality(unique(sequence_number))
              b0 == [n \in 1..N |-> group_id(batch[n], frames, sequence_number[n])]
              b1 == [n \in 1..N |-> pair_of(cls, batch[n], frames, sequence_number[n])]
          IN  /\ call' = [op |-> "forward", B |-> B, F |-> F, P |-> P, x |-> x,
                          tie |-> tie]
              /\ b' = <<b0, b1>>
              /\ knn_edge_index' = knn(x, x, k, b'[1], b'[2], tie)
              /\ edge_index' = knn_edge_index'
              /\ status' = IF \/ ~index_select_ok(edge_index', N)
                              \/ /\ cls = "TemporalSelfAttentionDynamicEdgeConv"
                                 /\ ~aggregate_reshape_ok(Len(edge_index'.row0), k)
                           THEN "error" ELSE "ok"
              /\ propagated' = IF cls = "TemporalSelfAttentionDynamicEdgeConv"
                                   /\ status' = "ok"
                                THEN propagate(edge_index', x, k, "target_to_source")
                                ELSE NoOutput
    /\ UNCHANGED <<knn_imported, layer, mpd, local_edge_index, net_out, reset_log>>

\* TemporalAutomatedGraphDynamicEdgeConv.__init__; num_points is a whole
\* number of frames, or one point more (num_points // num_frames rounds down)
Construct_TemporalAutomated ==
    /\ cls = "module" /\ status = "idle"
    /\ \E kk \in 1..MaxK, bsz \in 1..MaxBatch, frames \in 1..MaxFrames,
          per_frame \in 1..MaxPoints, window \in 1..(2 * MaxT + 1),
          extra \in 0..1 :
          /\ extra = 0 \/ frames > 1
          /\ LET points == frames * per_frame + extra
             IN  IF \/ window % 2 # 1      \* assert t % 2 == 1
                    \/ missing_dependency("TemporalAutomatedGraphDynamicEdgeConv",
                                          knn_imported)
                 THEN /\ status' = "error"
                      /\ call' = [op |-> "__init__",
                                  class |-> "TemporalAutomatedGraphDynamicEdgeConv",
                                  t |-> window]
                      /\ UNCHANGED <<knn_imported, layer, results>>
                 ELSE /\ cls' = "TemporalAutomatedGraphDynamicEdgeConv"
                      /\ k' = kk
                      /\ t' = window
                      /\ batch_size' = bsz
                      /\ num_points' = points
                      /\ num_frames' = frames
                      /\ mask' = build_mask(points, frames, window)
                      /\ point_index_corrector' = build_corrector(bsz, points, kk)
                      /\ UNCHANGED <<knn_imported, T, call, status, results>>

\* TemporalAutomatedGraphDynamicEdgeConv.forward, with propagate; a batch
\* holds at most the configured number of samples, each of num_points points
\* or (a batch from another dataset) of one point more
Forward_TemporalAutomated ==
    /\ cls = "TemporalAutomatedGraphDynamicEdgeConv" /\ status = "idle"
    /\ \E actual \in 1..batch_size, pat \in FeaturePatterns, more \in 0..1,
          tie \in TieOrders :
          LET per_sample == num_points + more
              N == actual * per_sample
              x == features(N, pat)
              batch == [n \in 1..N |-> (n - 1) \div per_sample]
              bsz == Cardinality(unique(batch))
              n == N \div bsz
              sample(s) == SubSeq(x, (s - 1) * n + 1, s * n)
              created == graph_creator_ok(n, k, mask)
              local == [s \in 1..bsz |-> graph_creator(sample(s), k, mask, tie)]
              rows == corrector_rows(point_index_corrector, batch_size, bsz)
              fits == /\ broadcastable(bsz, Len(rows))
                      /\ broadcastable(n * k, num_points * k)
          IN  \* the order of equal scores matters only where top-k runs
              /\ more = 0 \/ tie = "low"
              /\ call' = [op |-> "forward", B |-> actual, n |-> per_sample, x |-> x,
                          tie |-> tie]
              /\ local_edge_index' = IF created THEN local ELSE <<>>
              /\ edge_index' = IF created /\ fits
                               THEN flatten_from(1, local_edge_index', rows)
                               ELSE NoEdges
              /\ status' = IF created /\ fits
                              /\ index_select_ok(edge_index', N)
                              /\ aggregate_reshape_ok(Len(edge_index'.row0), k)
                           THEN "ok" ELSE "error"
              /\ propagated' = IF status' = "ok"
                                THEN propagate(edge_index', x, k, "target_to_source")
                                ELSE NoOutput
              /\ point_index_corrector' =
                    corrector_after_forward(point_index_corrector, batch_size, bsz)
    /\ UNCHANGED <<knn_imported, cls, k, T, t, batch_size, num_points, num_frames,
                   mask, mpd, b, knn_edge_index, net_out, reset_log>>

\* Net.__init__: both stages are TemporalAutomatedGraphDynamicEdgeConv
\* layers with the same k, batch_size, num_points, num_frames and the
\* default window t = 5, so one mask and one offset table describe both
Construct_Net ==
    /\ cls = "module" /\ status = "idle"
    /\ IF missing_dependency("TemporalAutomatedGraphDynamicEdgeConv", knn_imported)
       THEN /\ status' = "error"
            /\ call' = [op |-> "__init__", class |-> "Net"]
            /\ UNCHANGED <<cls, k, t, batch_size, num_points, num_frames, mask,
                           point_index_corrector>>
       ELSE /\ \E kk \in 1..MaxK, bsz \in 1..MaxBatch, frames \in 1..MaxFrames,
                  per_frame \in 1..MaxPoints :
                  /\ cls' = "Net"
                  /\ k' = kk
                  /\ t' = 5
                  /\ batch_size' = bsz
                  /\ num_points' = frames * per_frame
                  /\ num_frames' = frames
                  /\ mask' = build_mask(frames * per_frame, frames, 5)
                  /\ point_index_corrector' =
                        build_corrector(bsz, frames * per_frame, kk)
            /\ UNCHANGED <<call, status>>
    /\ UNCHANGED <<knn_imported, T, results>>

\* Net.forward on a batch of at most batch_size samples, each of num_frames
\* frames numbered from 1 and num_points points in all.  The alignment, the
\* pooling and the classifier act on features only; the features of the
\* second stage are the output of the first.
Forward_Net ==
    /\ cls = "Net" /\ status = "idle"
    /\ \E actual \in 1..batch_size, pat \in FeaturePatterns, tie \in TieOrders :
          LET P == num_points \div num_frames
              pos == features(actual * num_points, pat)
              raw == [n \in 1..(actual * num_points) |->
                         float(sequence_numbers(actual, num_frames, P)[n])]
          IN  /\ call' = [op |-> "forward", B |-> actual, F |-> num_frames, P |-> P,
                          x |-> pos, tie |-> tie]
              /\ \E first_edge_index \in
                        {IF graph_creator_ok(num_points, k, mask)
                         THEN stage_edges(pos, actual, tie) ELSE NoEdges} :
                 IF \/ ~graph_creator_ok(num_points, k, mask)
                    \/ ~index_select_ok(first_edge_index, Len(pos))
                 THEN /\ status' = "error"
                      /\ net_out' = NoNetOutput
                 ELSE /\ status' = "ok"
                      /\ \E sequence_number \in {normalized(raw)},
                            x1 \in {propagate(first_edge_index, pos, k,
                                              "target_to_source").out} :
                            net_out' =
                               [edge_index |->
                                    <<first_edge_index, stage_edges(x1, actual, tie)>>,
                                sequence_numbers |-> sequence_number,
                                unscaled_sequence_numbers |->
                                    unscaled(num_frames, sequence_number)]
    /\ UNCHANGED <<knn_imported, layer, mpd, b, knn_edge_index, local_edge_index,
                   edge_index, propagated, reset_log>>

\* reset_parameters of a constructed layer, as __init__ calls it last and as
\* a caller may call it again; the layer's networks are the caller's choice
ResetParameters ==
    /\ cls \notin {"module", "Net"} /\ status = "idle"
    /\ \E net \in Networks, nn_before_graph_creation \in {None, MLP(<<3, 16>>)},
          creator_defines \in BOOLEAN :
          LET automated == cls = "TemporalAutomatedGraphDynamicEdgeConv"
              held == attribute_modules(net, nn_before_graph_creation,
                                        creator_defines)
              names == reset_attributes(cls)
          IN  /\ automated \/ (nn_before_graph_creation = None /\ ~creator_defines)
              /\ call' = [op |-> "reset_parameters",
                          modules |-> [a \in 1..Len(names) |-> held[names[a]]]]
              /\ reset_log' = UNION {{<<a>> \o path : path \in reset(held[names[a]])} :
                                       a \in 1..Len(names)}
              /\ status' = "ok"
    /\ UNCHANGED <<knn_imported, layer, mpd, b, knn_edge_index, local_edge_index,
                   edge_index, propagated, net_out>>

\* the caller takes the result; the next call starts afresh
Return ==
    /\ status # "idle"
    /\ call' = NoCall /\ status' = "idle" /\ mpd' = NoResult /\ b' = NoPair
    /\ knn_edge_index' = NoEdges
    /\ local_edge_index' = <<>> /\ edge_index' = NoEdges
    /\ propagated' = NoOutput /\ net_out' = NoNetOutput /\ reset_log' = {}
    /\ UNCHANGED <<knn_imported, layer>>

Next ==
    \/ CallMakeProperData
    \/ CallPlaygroundMakeProperData
    \/ Construct_Generalized
    \/ Forward_Generalized
    \/ Construct_Adjacent
    \/ Construct_Other
    \/ Forward_Adjacent
    \/ Construct_TemporalAutomated
    \/ Forward_TemporalAutomated
    \/ Construct_Net
    \/ Forward_Net
    \/ ResetParameters
    \/ Return

Spec == Init /\ [][Next]_vars

\* ------------------------------------------------------ reading a call
\* the batch of the call in progress, as the caller laid it out
CallPoints == IF cls = "TemporalAutomatedGraphDynamicEdgeConv"
              THEN call.B * num_points
              ELSE IF call.op = "make_proper_data"
              THEN call.B * call.F * call.P - call.drop
              ELSE call.B * call.F * call.P

SampleOf(n) == IF cls = "TemporalAutomatedGraphDynamicEdgeConv"
               THEN n \div num_points
               ELSE n \div (call.F * call.P)

FrameOf(n) == ((n \div call.P) % call.F) + 1

PointsInFrames(s, lo, hi) ==
    {m \in 0..(CallPoints - 1) : SampleOf(m) = s /\ lo <= FrameOf(m) /\ FrameOf(m) <= hi}

\* the candidate positions make_proper_data pairs with source point n
CandidatePositions(n) ==
    {q \in 0..(Len(mpd.target_batch) - 1) :
        At(mpd.target_batch, q) = At(mpd.source_batch, n)}

Candidates(n) == {At(mpd.index_mapper, q) : q \in CandidatePositions(n)}

StrictCausalCall ==
    /\ status = "ok" /\ call.op = "make_proper_data" /\ ~call.self_loop

InclusiveCall ==
    /\ status = "ok" /\ call.op = "make_proper_data" /\ call.self_loop

ForwardOf(class) == cls = class /\ call.op = "forward" /\ status # "idle"

GeneralizedClass == "GeneralizedTemporalSelfAttentionDynamicEdgeConv"

\* a k-NN forward pass whose knn_input holds no NaN
FiniteForward == ForwardOf(GeneralizedClass) /\ ~call.nan

AutomatedClass == "TemporalAutomatedGraphDynamicEdgeConv"

EdgeCount == Len(edge_index.row0)

EdgesOf(n) == {e \in 1..EdgeCount : edge_index.row0[e] = n}

\* some block of k consecutive messages holds messages of two source points
MixedBlock ==
    \E e1 \in 1..EdgeCount, e2 \in 1..EdgeCount :
        /\ (e1 - 1) \div k = (e2 - 1) \div k
        /\ edge_index.row0[e1] # edge_index.row0[e2]

InsufficientNeighbors ==
    \E n \in 0..(CallPoints - 1) : Cardinality(CandidatePositions(n)) < k

\* ---------------------------------------------------------------- claims

\* C1: make_proper_data with self_loop=False pairs a source point of frame
\* f > 1 of sample s with exactly the points of sample s in frames
\* max(1, f-T) .. f-1, and a source point of frame 1 with exactly the points
\* of frame 1 of its sample, each listed once.
C1_StrictCausalCandidates ==
    StrictCausalCall =>
        \A n \in 0..(CallPoints - 1) :
            LET f == FrameOf(n)
                want == IF f = 1 THEN PointsInFrames(SampleOf(n), 1, 1)
                        ELSE PointsInFrames(SampleOf(n), Max2(1, f - call.T), f - 1)
            IN  /\ Candidates(n) = want
                /\ Cardinality(CandidatePositions(n)) = Cardinality(want)

\* a two-sample call with T = 2 in which a point of frame 3 is paired with
\* frames 1-2 and a point of frame 1 with its own frame
C1_Witness ==
    /\ StrictCausalCall /\ call.T = 2 /\ call.B = 2 /\ call.F >= 3 /\ call.P = 2
    /\ \E n \in 0..(CallPoints - 1) :
          /\ FrameOf(n) = 3 /\ SampleOf(n) = 1
          /\ Candidates(n) = PointsInFrames(1, 1, 2)
    /\ Candidates(0) = PointsInFrames(0, 1, 1)

\* C2: make_proper_data with self_loop=True pairs a source point of frame f
\* of sample s with exactly the points of sample s in frames
\* max(1, f-T) .. f, each listed once.
C2_InclusiveCandidates ==
    InclusiveCall =>
        \A n \in 0..(CallPoints - 1) :
            LET f == FrameOf(n)
                want == PointsInFrames(SampleOf(n), Max2(1, f - call.T), f)
            IN  /\ Candidates(n) = want
                /\ Cardinality(CandidatePositions(n)) = Cardinality(want)

\* an inclusive call with T = 1 in which a point of frame 3 is paired with
\* frames 2-3
C2_Witness ==
    /\ InclusiveCall /\ call.T = 1 /\ call.B = 2 /\ call.F >= 3
    /\ \E n \in 0..(CallPoints - 1) :
          /\ FrameOf(n) = 3
          /\ n \in Candidates(n)
          /\ Candidates(n) = PointsInFrames(SampleOf(n), 2, 3)

\* C3: the edge list of a completed forward pass (on finite inputs) holds
\* exactly k edges for every source point of the batch, on the k-NN path and
\* on the attention top-k path, so it has (number of points) * k columns.
C3_ExactlyKEdges ==
    ((FiniteForward \/ ForwardOf(AutomatedClass)) /\ status = "ok") =>
        /\ \A n \in 0..(CallPoints - 1) : Cardinality(EdgesOf(n)) = k
        /\ EdgeCount = CallPoints * k
        /\ Len(edge_index.row1) = EdgeCount

\* C4: both endpoints of every edge of the final edge list are flattened
\* indices of points of one sample of the batch.
C4_NoEdgeCrossesSample ==
    (ForwardOf(GeneralizedClass) \/ ForwardOf(AutomatedClass)) =>
        \A e \in 1..EdgeCount :
            /\ edge_index.row0[e] \in 0..(CallPoints - 1)
            /\ edge_index.row1[e] \in 0..(CallPoints - 1)
            /\ SampleOf(edge_index.row0[e]) = SampleOf(edge_index.row1[e])

\* a completed k-NN forward pass over two samples with an edge inside the
\* second sample whose target is not its source
C4_Witness ==
    /\ ForwardOf(GeneralizedClass) /\ status = "ok" /\ call.B = 2 /\ call.F >= 2
    /\ \E e \in 1..EdgeCount :
          /\ SampleOf(edge_index.row0[e]) = 1
          /\ edge_index.row1[e] # edge_index.row0[e]

\* C5: for every odd window t >= 1 and every k not larger than the number
\* of points per frame, no edge of a forward pass joins two points whose
\* entry in the temporal mask is 0.
C5_MaskedNeverSelected ==
    (ForwardOf(AutomatedClass) /\ status = "ok" /\ k <= num_points \div num_frames) =>
        \A s \in 1..Len(local_edge_index) :
            \A e \in 1..Len(local_edge_index[s].row0) :
                At(At(mask, local_edge_index[s].row0[e]),
                   local_edge_index[s].row1[e]) = 1

\* C6: the mask built for an odd window t allows t//2 frames before and
\* after: mask[r][c] = 1 exactly when |frame(r) - frame(c)| <= t//2.
C6_MaskSymmetricWindow ==
    cls = AutomatedClass =>
        LET ppf == num_points \div num_frames
        IN  \A r \in 0..(num_points - 1), c \in 0..(num_points - 1) :
                At(At(mask, r), c) =
                    (IF Abs((r \div ppf) - (c \div ppf)) <= t \div 2 THEN 1 ELSE 0)

\* C7: in a forward call with 1 <= b <= batch_size samples the offset added
\* to the edges of sample s is s * num_points, read from row s of the table
\* built at construction, and every index of the edge list is below
\* num_points * b.
C7_PartialBatchOffsets ==
    (ForwardOf(AutomatedClass) /\ edge_index # NoEdges) =>
        /\ EdgeCount = call.B * num_points * k
        /\ \A s \in 0..(call.B - 1), e \in 1..(num_points * k) :
              LET g == s * num_points * k + e
                  loc == local_edge_index[s + 1]
              IN  /\ edge_index.row0[g] - loc.row0[e] = s * num_points
                  /\ edge_index.row1[g] - loc.row1[e] = s * num_points
                  /\ point_index_corrector[s + 1][1][e] = s * num_points
                  /\ point_index_corrector[s + 1][2][e] = s * num_points
                  /\ edge_index.row0[g] \in 0..(num_points * call.B - 1)
                  /\ edge_index.row1[g] \in 0..(num_points * call.B - 1)

\* a completed forward pass on a batch smaller than the configured one
C7_Witness ==
    /\ ForwardOf(AutomatedClass) /\ status = "ok"
    /\ call.B < batch_size /\ EdgeCount > 0

\* C8: for a batch with 1-based sequence numbers in [1, num_frames] the
\* identifier sample_id * num_frames + sequence_number - 1 of two points is
\* the same exactly when they belong to the same (sample, frame) pair.
C8_GroupIdLabelsSampleFrame ==
    LET ids == IF cls \in AdjacentClasses THEN b[1] ELSE mpd.source_batch
    IN  ((\E class \in AdjacentClasses \cup {GeneralizedClass} : ForwardOf(class))
            \/ (call.op = "make_proper_data" /\ status # "idle")) =>
            /\ Len(ids) = CallPoints
            /\ \A m \in 0..(CallPoints - 1), n \in 0..(CallPoints - 1) :
                  (At(ids, m) = At(ids, n))
                      <=> (SampleOf(m) = SampleOf(n) /\ FrameOf(m) = FrameOf(n))

\* a forward pass over two samples of three frames: the last frame of the
\* first sample and the first frame of the second get different identifiers
C8_Witness ==
    /\ \E class \in AdjacentClasses : ForwardOf(class)
    /\ call.B = 2 /\ call.F = 3
    /\ \E m \in 0..(CallPoints - 1), n \in 0..(CallPoints - 1) :
          /\ SampleOf(m) = 0 /\ FrameOf(m) = 3
          /\ SampleOf(n) = 1 /\ FrameOf(n) = 1
          /\ At(b[1], m) + 1 = At(b[1], n)

\* C9 as stated: in all three adjacent-frame layers a point of the first or
\* of the last frame is paired with its own group, every other point with
\* the group of the previous frame of its sample.
C9_FirstAndLastFallBack ==
    (\E class \in AdjacentClasses : ForwardOf(class)) =>
        \A n \in 0..(CallPoints - 1) :
            LET own == SampleOf(n) * call.F + FrameOf(n) - 1
            IN  At(b[2], n) = IF FrameOf(n) = 1 \/ FrameOf(n) = call.F
                              THEN own ELSE own - 1

\* C9 amended: TemporalDynamicEdgeConv pairs a point of the first or last
\* frame with its own group; TemporalAttentionDynamicEdgeConv and
\* TemporalSelfAttentionDynamicEdgeConv pair only a point of the first frame
\* with its own group; every other point is paired with the previous frame.
C9_BoundaryFrames ==
    (\E class \in AdjacentClasses : ForwardOf(class)) =>
        \A n \in 0..(CallPoints - 1) :
            LET own == SampleOf(n) * call.F + FrameOf(n) - 1
                falls_back == \/ FrameOf(n) = 1
                              \/ (cls = "TemporalDynamicEdgeConv" /\ FrameOf(n) = call.F)
            IN  At(b[2], n) = IF falls_back THEN own ELSE own - 1

\* a forward pass of TemporalAttentionDynamicEdgeConv over three frames in
\* which a point of the last frame is paired with the previous frame
C9_Witness ==
    /\ ForwardOf("TemporalAttentionDynamicEdgeConv") /\ call.F = 3
    /\ \E n \in 0..(CallPoints - 1) :
          /\ FrameOf(n) = 3
          /\ At(b[2], n) = At(b[1], n) - 1

\* C10: when some source point has fewer than k eligible candidates the
\* k-NN forward pass (on finite inputs) ends in an error; it never returns
\* with a block of k messages that mixes the messages of different source
\* points.
C10_InsufficientNeighborsFail ==
    /\ (FiniteForward /\ InsufficientNeighbors) => status = "error"
    /\ (FiniteForward /\ status = "ok") => ~MixedBlock

\* the layers whose aggregate reshapes the messages into blocks of k
BlockClasses == {GeneralizedClass, AutomatedClass,
                 "TemporalSelfAttentionDynamicEdgeConv"}

\* C11: a point count that does not match what a reshape expects ends the
\* operation in an error: a total that is no multiple of samples x frames in
\* make_proper_data, a num_points that is no multiple of num_frames in
\* TemporalAutomatedGraphDynamicEdgeConv.__init__ (no layer is built), a
\* forward batch whose samples do not hold num_points points, an edge count
\* that is no multiple of k in aggregate.
C11_ShapeMismatchFailsFast ==
    /\ (call.op = "make_proper_data" /\ status # "idle"
            /\ CallPoints % (call.B * call.F) # 0) => status = "error"
    /\ cls = AutomatedClass => num_points % num_frames = 0
    /\ (ForwardOf(AutomatedClass) /\ call.n # num_points) => status = "error"
    /\ ((\E class \in BlockClasses : ForwardOf(class)) /\ EdgeCount % k # 0)
            => status = "error"

LayerClasses == AdjacentClasses \cup OtherClasses
                    \cup {GeneralizedClass, AutomatedClass}

\* C12: when knn is unavailable the construction of every dynamic
\* convolution layer ends in an error, so no layer object exists and no
\* forward call is ever made.
C12_MissingDependencyEager ==
    ~knn_imported =>
        /\ cls = "module"
        /\ call.op \in {"none", "__init__", "make_proper_data", "playground"}
        /\ call.op = "__init__" => status = "error"

\* without knn, the construction of TemporalAutomatedGraphDynamicEdgeConv
\* with an odd window was attempted and failed
C12_Witness ==
    /\ ~knn_imported /\ call.op = "__init__" /\ status = "error"
    /\ call.class = AutomatedClass /\ call.t % 2 = 1

\* C13: every entry of the index_mapper returned by make_proper_data is a
\* point index of the batch and the candidate target row at that position is
\* the data row the entry names; in the k-NN forward pass the target of every
\* edge is index_mapper of the candidate position knn returned, hence the
\* index of the point whose row knn selected.
C13_IndexMapperRoundTrip ==
    /\ ((call.op = "make_proper_data" \/ ForwardOf(GeneralizedClass))
            /\ status # "idle" /\ mpd.ok) =>
            /\ Len(mpd.index_mapper) = Len(mpd.target)
            /\ \A q \in 0..(Len(mpd.target) - 1) :
                  /\ At(mpd.index_mapper, q) \in 0..(CallPoints - 1)
                  /\ At(mpd.target, q) = At(call.x, At(mpd.index_mapper, q))
    /\ (ForwardOf(GeneralizedClass) /\ mpd.ok) =>
            /\ edge_index.row0 = knn_edge_index.row0
            /\ Len(edge_index.row1) = Len(knn_edge_index.row1)
            /\ \A e \in 1..EdgeCount :
                  /\ knn_edge_index.row1[e] \in 0..(Len(mpd.target) - 1)
                  /\ edge_index.row1[e]
                        = At(mpd.index_mapper, knn_edge_index.row1[e])
                  /\ edge_index.row1[e] \in 0..(CallPoints - 1)
                  /\ At(call.x, edge_index.row1[e])
                        = At(mpd.target, knn_edge_index.row1[e])

\* a k-NN forward pass over two samples in which knn returned a candidate
\* position that is not the point index it stands for
C13_Witness ==
    /\ ForwardOf(GeneralizedClass) /\ status = "ok" /\ call.B = 2
    /\ \E e \in 1..EdgeCount :
          /\ knn_edge_index.row1[e] # edge_index.row1[e]
          /\ At(mpd.index_mapper, knn_edge_index.row1[e]) = edge_index.row1[e]

\* the call of make_proper_data in progress, repeated on other features
MakeProperDataOn(pat) ==
    make_proper_data(features(CallPoints, pat),
                     truncated(sequence_numbers(call.B, call.F, call.P), call.drop),
                     truncated(sample_ids(call.B, call.F, call.P), call.drop),
                     call.self_loop, call.T)

\* C14: a call of make_proper_data with the same sample ids, sequence
\* numbers, self_loop and T but other point feature values returns the same
\* source group ids, the same target group ids and the same index_mapper.
C14_CandidatesIgnoreFeatures ==
    (call.op = "make_proper_data" /\ status # "idle") =>
        \A pat \in FeaturePatterns :
            /\ MakeProperDataOn(pat).ok = mpd.ok
            /\ MakeProperDataOn(pat).source_batch = mpd.source_batch
            /\ MakeProperDataOn(pat).target_batch = mpd.target_batch
            /\ MakeProperDataOn(pat).index_mapper = mpd.index_mapper

\* a call over two samples for which other features give other candidate
\* target rows under the same index_mapper
C14_Witness ==
    /\ call.op = "make_proper_data" /\ status = "ok"
    /\ call.B = 2 /\ call.F >= 2 /\ call.T >= 1
    /\ \E pat \in FeaturePatterns :
          /\ MakeProperDataOn(pat).target # mpd.target
          /\ MakeProperDataOn(pat).index_mapper = mpd.index_mapper

\* C15: in the edge list a completed forward pass (on finite inputs) hands
\* to aggregate, on the k-NN path and on the attention path, the k positions
\* n*k .. n*k + k - 1 of every block n carry one source point index.
C15_ContiguousBlocks ==
    ((FiniteForward \/ ForwardOf(AutomatedClass)) /\ status = "ok") =>
        \A n \in 0..((EdgeCount - 1) \div k) :
            \A e \in (n * k + 1)..(n * k + k) :
                /\ e <= EdgeCount
                /\ edge_index.row0[e] = edge_index.row0[n * k + 1]

\* the largest element of a non-empty finite set of integers
Largest(S) == CHOOSE m \in S : \A o \in S : o <= m

\* the edges whose second index is n
EdgesInto(n) == {e \in 1..EdgeCount : edge_index.row1[e] = n}

\* C16: in a completed forward pass of TemporalAutomatedGraphDynamicEdgeConv
\* the message of every edge (i, j) is the transform of point i's feature
\* and feature_j - feature_i, and the updated feature of a point p is the
\* max over exactly the k attention-refined messages of the edges whose
\* first index is p, refined within the block of those k messages.
C16_AggregationKeyIsFirstRow ==
    (ForwardOf(AutomatedClass) /\ status = "ok") =>
        /\ Len(propagated.message) = EdgeCount
        /\ Len(propagated.out) = CallPoints
        /\ \A e \in 1..EdgeCount :
              propagated.message[e] =
                  nn(<<At(call.x, edge_index.row0[e]),
                       At(call.x, edge_index.row1[e])
                           - At(call.x, edge_index.row0[e])>>)
        /\ \A p \in 0..(CallPoints - 1) :
              /\ Cardinality(EdgesOf(p)) = k
              /\ EdgesOf(p) = (p * k + 1)..(p * k + k)
              /\ \A e \in EdgesOf(p) :
                    propagated.refined[e] =
                        multihead_attn(SubSeq(propagated.message,
                                              p * k + 1, p * k + k))[e - p * k]
              /\ At(propagated.out, p)
                    = Largest({propagated.refined[e] : e \in EdgesOf(p)})

\* a completed forward pass in which keying the same refined messages on
\* the second row would give some point another feature
C16_Witness ==
    /\ ForwardOf(AutomatedClass) /\ status = "ok" /\ call.B = 2 /\ k = 2
    /\ \E e \in 1..EdgeCount : edge_index.row0[e] # edge_index.row1[e]
    /\ \E p \in 0..(CallPoints - 1) :
          /\ EdgesInto(p) # {}
          /\ At(propagated.out, p)
                # Largest({propagated.refined[e] : e \in EdgesInto(p)})

\* C17: whatever forward calls a TemporalAutomatedGraphDynamicEdgeConv
\* layer has served, on full batches and on smaller ones, its mask and its
\* offset table are the values __init__ built from its configuration.
C17_MaskAndTableReadOnly ==
    cls = AutomatedClass =>
        /\ mask = build_mask(num_points, num_frames, t)
        /\ point_index_corrector = build_corrector(batch_size, num_points, k)

\* a completed forward pass on one sample by a layer configured for two,
\* whose table still has its two rows
C17_Witness ==
    /\ ForwardOf(AutomatedClass) /\ status = "ok"
    /\ batch_size = 2 /\ call.B = 1
    /\ Len(point_index_corrector) = 2
    /\ point_index_corrector[2][1][1] = num_points

NetForward == cls = "Net" /\ call.op = "forward" /\ status = "ok"

\* C18: a completed Net.forward on a batch whose frames are numbered
\* 1 .. num_frames normalizes the sequence numbers into [0, 1], the smallest
\* to 0 and (when there are two frames or more) the largest to 1, and
\* returns for every point its raw 1-based sequence number.
C18_SequenceNumberRoundTrip ==
    NetForward =>
        /\ Len(net_out.sequence_numbers) = CallPoints
        /\ Len(net_out.unscaled_sequence_numbers) = CallPoints
        /\ \A n \in 0..(CallPoints - 1) :
              /\ ~is_nan(At(net_out.sequence_numbers, n))
              /\ ~less(At(net_out.sequence_numbers, n), float(0))
              /\ ~less(float(1), At(net_out.sequence_numbers, n))
              /\ FrameOf(n) = 1 => At(net_out.sequence_numbers, n) = float(0)
              /\ (FrameOf(n) = call.F /\ call.F > 1)
                    => At(net_out.sequence_numbers, n) = float(1)
              /\ At(net_out.unscaled_sequence_numbers, n) = float(FrameOf(n))

\* the number of entries equal to 1 in row r1 / column c1 of the mask
OnesInRow(r1) == Cardinality({c1 \in 1..Len(mask) : mask[r1][c1] = 1})

OnesInColumn(c1) == Cardinality({r1 \in 1..Len(mask) : mask[r1][c1] = 1})

\* C19: in every constructed layer (or Net) whose k is at most the number of
\* points per frame, every row and every column of the mask holds at least
\* k entries equal to 1, whatever the odd window t and the frame count.
C19_EnoughUnmaskedCandidates ==
    (cls \in {AutomatedClass, "Net"} /\ k <= num_points \div num_frames) =>
        \A n1 \in 1..num_points : OnesInRow(n1) >= k /\ OnesInColumn(n1) >= k

\* the modules at or below module that define reset_parameters, by path
RECURSIVE Defining(_)
Defining(module) ==
    (IF module.reset_parameters THEN {<<>>} ELSE {})
        \cup UNION {{<<i>> \o path : path \in Defining(module.children[i])} :
                      i \in DOMAIN module.children}

ResetCall == call.op = "reset_parameters" /\ status # "idle"

\* C20: a reset_parameters call on a layer ends without error and invokes
\* reset_parameters on every module at or below the layer's networks that
\* defines it, the Linear and BatchNorm1d layers inside an MLP included; an
\* absent pre-transform contributes nothing.
C20_ResetReachesEveryModule ==
    ResetCall =>
        /\ status = "ok"
        /\ \A a \in DOMAIN call.modules :
              \A path \in Defining(call.modules[a]) : <<a>> \o path \in reset_log

PlaygroundCall == call.op = "playground" /\ status = "ok"

\* C21: in the result of playground.py's make_proper_data on a batch of B
\* samples x F frames x P points, every candidate position whose target
\* group id belongs to sample s maps through index_mapper to a point of
\* sample s, and the frame of that point is one the triangular mask allows
\* for the group's frame.
C21_PlaygroundCandidatesInsideSample ==
    PlaygroundCall =>
        /\ Len(mpd.index_mapper) = Len(mpd.target_batch)
        /\ \A q \in 0..(Len(mpd.index_mapper) - 1) :
              LET group == At(mpd.target_batch, q)
                  point == At(mpd.index_mapper, q)
              IN  /\ point \in 0..(CallPoints - 1)
                  /\ SampleOf(point) = group \div call.F
                  /\ triu(group % call.F, FrameOf(point) - 1) = 1
====
